---- MODULE Spec2Model ----
(***************************************************************************)
(* Two-phase commit simulation of src/2-PC-Commit.py: a Coordinator drives *)
(* a list of Participants through prepare (phase 1), the unanimity         *)
(* decision, and commit/abort (phase 2).  The coordinator's run_2pc is     *)
(* modelled step by step (one action per loop iteration), the participant  *)
(* methods as operators on participant records.                            *)
(***************************************************************************)
EXTENDS Naturals, Sequences, FiniteSets, TLC

\* ---------------------------------------------------------------- bounds
\* Longest participant list handed to a Coordinator.
MaxParticipants == 3
\* Number of distinct participant names available to the harness.
NumNames == 3
\* Number of run_2pc invocations on the one Coordinator.
MaxRuns == 2
\* Number of participant methods the harness calls directly (outside run_2pc).
MaxCalls == 1
\* Longest participant list of a harness that calls participant methods directly.
MaxCallParticipants == 2

NamePool == <<"A", "B", "C", "D", "E", "F">>
Names == {NamePool[k] : k \in 1..NumNames}

\* ------------------------------------------------------------ vocabulary
Vote == {"YES", "NO"}
Decision == {"COMMIT", "ABORT"}
State == {"INIT", "READY", "COMMITTED", "ABORTED"}
\* Python's None: the absent decision, and the result of commit()/abort().
None == "None"
\* A key the votes dict does not hold.
Absent == "absent"

VARIABLES
    participants,   \* Coordinator.participants: the list of Participant objects
    decision,       \* Coordinator.decision
    log,            \* Coordinator.log
    votes,          \* run_2pc's local dict votes: name -> Vote (Absent: no key)
    pc,             \* where the coordinator is: "idle", "phase1" or "phase2"
    i,              \* index of the next participant of the running for loop
    ret,            \* value returned by the last call that has returned
    runs,           \* number of run_2pc invocations so far
    calls           \* number of direct participant calls made by the harness

vars == <<participants, decision, log, votes, pc, i, ret, runs, calls>>

\* ----------------------------------------------------------- Participant
\* A Participant as constructed: state INIT, empty log.
Participant(name, will_vote_yes) ==
    [name |-> name, will_vote_yes |-> will_vote_yes, state |-> "INIT", log |-> <<>>]

\* A vote that is YES only for a participant still in INIT.
prepareVote_OnlyInit(p) == IF p.will_vote_yes /\ p.state = "INIT" THEN "YES" ELSE "NO"

\* The vote prepare() returns.
prepareVote(p) == IF p.will_vote_yes THEN "YES" ELSE "NO"

\* prepare() that records a YES vote without moving to READY.
prepare_NoReady(p) ==
    IF p.will_vote_yes
    THEN [p EXCEPT !.log = Append(@, "VOTE YES")]
    ELSE [p EXCEPT !.state = "ABORTED", !.log = Append(@, "VOTE NO")]

\* prepare() that records a NO vote without moving to ABORTED.
prepare_NoAbort(p) ==
    IF p.will_vote_yes
    THEN [p EXCEPT !.state = "READY", !.log = Append(@, "VOTE YES")]
    ELSE [p EXCEPT !.log = Append(@, "VOTE NO")]

\* The participant after prepare().
prepare(p) ==
    IF p.will_vote_yes
    THEN [p EXCEPT !.state = "READY", !.log = Append(@, "VOTE YES")]
    ELSE [p EXCEPT !.state = "ABORTED", !.log = Append(@, "VOTE NO")]

\* The participant after commit().
commit(p) == [p EXCEPT !.state = "COMMITTED", !.log = Append(@, "COMMIT")]

\* abort() that logs without setting the state.
abort_LogOnly(p) == [p EXCEPT !.log = Append(@, "ABORT")]

\* abort() that does nothing on a participant that is already ABORTED.
abort_Idempotent(p) ==
    IF p.state = "ABORTED"
    THEN p
    ELSE [p EXCEPT !.state = "ABORTED", !.log = Append(@, "ABORT")]

\* abort() that also clears the participant's vote policy.
abort_ClearsPolicy(p) ==
    [p EXCEPT !.state = "ABORTED", !.log = Append(@, "ABORT"), !.will_vote_yes = FALSE]

\* The participant after abort().
abort(p) == [p EXCEPT !.state = "ABORTED", !.log = Append(@, "ABORT")]

\* ----------------------------------------------------------- Coordinator
\* votes = {}
EmptyVotes == [n \in Names |-> Absent]

\* votes = {p.name: vote}: the dict is replaced instead of updated.
SetVote_Replace(vs, name, vote) == [n \in Names |-> IF n = name THEN vote ELSE Absent]

\* votes[p.name] = vote
SetVote(vs, name, vote) == [vs EXCEPT ![name] = vote]

\* all(...) that is false of an empty dict.
AllYes_NonEmpty(vs) ==
    /\ \E n \in Names : vs[n] # Absent
    /\ \A n \in Names : vs[n] # Absent => vs[n] = "YES"

\* all(v == Vote.YES for v in votes.values())
AllYes(vs) == \A n \in Names : vs[n] # Absent => vs[n] = "YES"

\* A decision rule that commits as soon as one vote is YES.
Decide_AnyYes(vs) == IF \E n \in Names : vs[n] = "YES" THEN "COMMIT" ELSE "ABORT"

\* The decision rule.
Decide(vs) == IF AllYes(vs) THEN "COMMIT" ELSE "ABORT"

\* A vote report that leaves out the participant's name.
VoteLine_NoName(p, vote) == vote

\* f"{p.name} -> {vote.value}"
VoteLine(p, vote) == p.name \o " -> " \o vote

\* f"DECISION: {self.decision.value}"
DecisionLine(d) == "DECISION: " \o d

\* "PHASE 2: " + self.decision.value
Phase2Line(d) == "PHASE 2: " \o d

\* f"{p.name} -> {p.state.value}"
StateLine(p) == p.name \o " -> " \o p.state

\* Phase 2 that commits every READY participant whatever the decision.
phase2_CommitReady(p, d) ==
    IF d = "COMMIT" \/ p.state = "READY" THEN commit(p) ELSE abort(p)

\* Phase 2 with the else missing: abort() also follows commit().
phase2_MissingElse(p, d) == IF d = "COMMIT" THEN abort(commit(p)) ELSE abort(p)

\* The phase-2 call the coordinator makes on p under decision d.
phase2(p, d) == IF d = "COMMIT" THEN commit(p) ELSE abort(p)

\* run_2pc as a function of the participant list: the phase-1 loop after k
\* iterations, from c = [participants, votes, log].
RECURSIVE Phase1Loop(_, _)
Phase1Loop(c, k) ==
    IF k = 0
    THEN c
    ELSE LET b == Phase1Loop(c, k - 1)
             p == b.participants[k]
             vote == prepareVote(p)
         IN [participants |-> [b.participants EXCEPT ![k] = prepare(p)],
             votes |-> SetVote(b.votes, p.name, vote),
             log |-> Append(b.log, VoteLine(p, vote))]

\* The phase-2 loop after k iterations under decision d.
RECURSIVE Phase2Loop(_, _, _)
Phase2Loop(c, d, k) ==
    IF k = 0
    THEN c
    ELSE LET b == Phase2Loop(c, d, k - 1)
             q == phase2(b.participants[k], d)
         IN [b EXCEPT !.participants[k] = q, !.log = Append(@, StateLine(q))]

\* One whole run_2pc over the list ps by a Coordinator whose log is log0: the
\* decision returned, the participants and the coordinator log it leaves.
run_2pc(ps, log0) ==
    LET a == Phase1Loop([participants |-> ps, votes |-> EmptyVotes,
                         log |-> Append(log0, "PHASE 1: PREPARE")], Len(ps))
        d == Decide(a.votes)
        b == Phase2Loop([a EXCEPT !.log = @ \o <<DecisionLine(d), Phase2Line(d)>>],
                        d, Len(ps))
    IN [decision |-> d, participants |-> b.participants, log |-> b.log]

\* ------------------------------------------------------------------ Init
FreshParticipants == {Participant(n, w) : n \in Names, w \in BOOLEAN}

ParticipantLists == UNION {[1..n -> FreshParticipants] : n \in 0..MaxParticipants}

Init ==
    /\ participants \in ParticipantLists
    /\ decision = None
    /\ log = <<>>
    /\ votes = EmptyVotes
    /\ pc = "idle"
    /\ i = 0
    /\ ret = None
    /\ runs = 0
    /\ calls = 0

\* --------------------------------------------------------------- run_2pc
\* run_2pc that starts a new coordinator log on entry.
RunStart_ClearsLog ==
    /\ pc = "idle"
    /\ runs < MaxRuns
    /\ votes' = EmptyVotes
    /\ log' = <<"PHASE 1: PREPARE">>
    /\ pc' = "phase1"
    /\ i' = 1
    /\ runs' = runs + 1
    /\ UNCHANGED <<participants, decision, ret, calls>>

\* run_2pc is entered: votes = {}, the phase-1 marker is logged.
RunStart ==
    /\ pc = "idle"
    /\ runs < MaxRuns
    /\ votes' = EmptyVotes
    /\ log' = Append(log, "PHASE 1: PREPARE")
    /\ pc' = "phase1"
    /\ i' = 1
    /\ runs' = runs + 1
    /\ UNCHANGED <<participants, decision, ret, calls>>

\* One iteration of the phase-1 loop.
RunPrepare ==
    /\ pc = "phase1"
    /\ i <= Len(participants)
    /\ LET p == participants[i]
           vote == prepareVote(p)
       IN /\ participants' = [participants EXCEPT ![i] = prepare(p)]
          /\ votes' = SetVote(votes, p.name, vote)
          /\ log' = Append(log, VoteLine(p, vote))
    /\ i' = i + 1
    /\ UNCHANGED <<decision, pc, ret, runs, calls>>

\* A phase-1 loop that stops asking as soon as a NO vote has come in.
RunDecide_EarlyExit ==
    /\ pc = "phase1"
    /\ (i > Len(participants) \/ \E n \in Names : votes[n] = "NO")
    /\ decision' = Decide(votes)
    /\ log' = log \o <<DecisionLine(decision'), Phase2Line(decision')>>
    /\ pc' = "phase2"
    /\ i' = 1
    /\ UNCHANGED <<participants, votes, ret, runs, calls>>

\* The phase-1 loop is over: decide, log the decision and the phase-2 marker.
RunDecide ==
    /\ pc = "phase1"
    /\ i > Len(participants)
    /\ decision' = Decide(votes)
    /\ log' = log \o <<DecisionLine(decision'), Phase2Line(decision')>>
    /\ pc' = "phase2"
    /\ i' = 1
    /\ UNCHANGED <<participants, votes, ret, runs, calls>>

\* One iteration of the phase-2 loop.
RunPhase2 ==
    /\ pc = "phase2"
    /\ i <= Len(participants)
    /\ LET q == phase2(participants[i], decision)
       IN /\ participants' = [participants EXCEPT ![i] = q]
          /\ log' = Append(log, StateLine(q))
    /\ i' = i + 1
    /\ UNCHANGED <<decision, votes, pc, ret, runs, calls>>

\* return self.decision
RunReturn ==
    /\ pc = "phase2"
    /\ i > Len(participants)
    /\ ret' = decision
    /\ pc' = "idle"
    /\ UNCHANGED <<participants, decision, log, votes, i, runs, calls>>

\* ------------------------------------------- direct calls by the harness
\* The harness calls participants[k].prepare() while no run is in progress.
CallPrepare(k) ==
    /\ pc = "idle"
    /\ calls < MaxCalls
    /\ participants' = [participants EXCEPT ![k] = prepare(@)]
    /\ ret' = prepareVote(participants[k])
    /\ calls' = calls + 1
    /\ UNCHANGED <<decision, log, votes, pc, i, runs>>

\* The harness calls participants[k].commit().
CallCommit(k) ==
    /\ pc = "idle"
    /\ calls < MaxCalls
    /\ participants' = [participants EXCEPT ![k] = commit(@)]
    /\ ret' = None
    /\ calls' = calls + 1
    /\ UNCHANGED <<decision, log, votes, pc, i, runs>>

\* The harness calls participants[k].abort().
CallAbort(k) ==
    /\ pc = "idle"
    /\ calls < MaxCalls
    /\ participants' = [participants EXCEPT ![k] = abort(@)]
    /\ ret' = None
    /\ calls' = calls + 1
    /\ UNCHANGED <<decision, log, votes, pc, i, runs>>

\* -------------------------------------------------------- specifications
\* The coordinator alone: run_2pc invoked on freshly constructed participants.
Next ==
    \/ RunStart
    \/ RunPrepare
    \/ RunDecide
    \/ RunPhase2
    \/ RunReturn

Spec == Init /\ [][Next]_vars

\* A step of a run_2pc that has been entered.
RunStep == RunPrepare \/ RunDecide \/ RunPhase2 \/ RunReturn

\* run_2pc is straight-line synchronous code: once entered, it keeps executing.
SpecFair == Init /\ [][Next]_vars /\ WF_vars(RunStep)

\* The names the harness of SpecCalls uses: as many as its longest list has
\* places, so that lists of distinct and of repeated names both occur.
CallNames == Names \cap {NamePool[k] : k \in 1..MaxCallParticipants}

\* The harness of SpecCalls constructs shorter participant lists.
InitCalls ==
    /\ Init
    /\ Len(participants) <= MaxCallParticipants
    /\ \A k \in 1..Len(participants) : participants[k].name \in CallNames

\* The coordinator and a harness that also calls participant methods itself.
NextCalls ==
    \/ RunStart
    \/ RunPrepare
    \/ RunDecide
    \/ RunPhase2
    \/ RunReturn
    \/ \E k \in 1..Len(participants) : CallPrepare(k)
    \/ \E k \in 1..Len(participants) : CallCommit(k)
    \/ \E k \in 1..Len(participants) : CallAbort(k)

SpecCalls == InitCalls /\ [][NextCalls]_vars

\* ----------------------------------------------------- derived notions
Error == "Error"

NumParticipants == Len(participants)

\* Participant names are pairwise distinct.
DistinctNames ==
    \A a, b \in 1..NumParticipants :
        a # b => participants[a].name # participants[b].name

\* Only the first run_2pc has been invoked, on participants nobody touched before.
FirstRun == runs = 1 /\ calls = 0

\* The first run_2pc has returned and nothing has been called since.
Returned == FirstRun /\ pc = "idle"

\* What participant k's prepare() logged as its vote in the first run.
VotedYes(k) == participants[k].log[1] = "VOTE YES"

\* The state a decision leaves a participant in.
Outcome(d) == IF d = "COMMIT" THEN "COMMITTED" ELSE "ABORTED"

\* C1. Unanimity: when the first run_2pc over distinctly named participants has
\* returned, the returned value is Coordinator.decision, and it is COMMIT if
\* every participant's prepare() voted YES and ABORT otherwise.
C1_Unanimity ==
    (Returned /\ DistinctNames) =>
        /\ ret = decision
        /\ decision \in Decision
        /\ decision = "COMMIT" <=> \A k \in 1..NumParticipants : VotedYes(k)

C1_Witness ==
    /\ Returned /\ DistinctNames /\ NumParticipants >= 2
    /\ ret = "ABORT"
    /\ \E k \in 1..NumParticipants : VotedYes(k)
    /\ \E k \in 1..NumParticipants : ~VotedYes(k)

\* C2. Consistency: when the first run_2pc on participants that started in INIT
\* has returned, every participant is COMMITTED if the decision is COMMIT and
\* ABORTED if it is ABORT; none is left in INIT or READY.
C2_Consistency ==
    Returned =>
        \A k \in 1..NumParticipants :
            /\ participants[k].state = Outcome(decision)
            /\ participants[k].state \notin {"INIT", "READY"}

C2_Witness ==
    /\ Returned /\ NumParticipants >= 2 /\ decision = "ABORT"
    /\ \E k \in 1..NumParticipants : participants[k].will_vote_yes
    /\ \A k \in 1..NumParticipants : participants[k].state = "ABORTED"

\* C3. Single NO forces ABORT: when the first run_2pc over distinctly named
\* participants of which at least one has will_vote_yes = False has returned,
\* it returned ABORT and every participant, YES voters included, is ABORTED.
C3_SingleNoForcesAbort ==
    (/\ Returned /\ DistinctNames
     /\ \E k \in 1..NumParticipants : ~participants[k].will_vote_yes) =>
        /\ ret = "ABORT"
        /\ decision = "ABORT"
        /\ \A k \in 1..NumParticipants : participants[k].state = "ABORTED"

\* The demo's list: A and B vote YES, C votes NO, and A and B were READY.
C3_Witness ==
    /\ Returned /\ DistinctNames /\ NumParticipants = 3
    /\ participants[1].log = <<"VOTE YES", "ABORT">>
    /\ participants[2].log = <<"VOTE YES", "ABORT">>
    /\ ~participants[3].will_vote_yes
    /\ participants[1].state = "ABORTED"

AllWillVoteYes == \A k \in 1..NumParticipants : participants[k].will_vote_yes

\* C4. All YES forces COMMIT: in the first run_2pc over a non-empty list of
\* participants that all have will_vote_yes = True, every participant is READY
\* when phase 2 reaches it, and when the run has returned it returned COMMIT
\* and every participant is COMMITTED.
C4_AllYesForcesCommit ==
    (FirstRun /\ NumParticipants > 0 /\ AllWillVoteYes) =>
        /\ pc = "phase2" =>
              \A k \in 1..NumParticipants :
                  participants[k].state = IF k < i THEN "COMMITTED" ELSE "READY"
        /\ pc = "idle" =>
              /\ ret = "COMMIT"
              /\ decision = "COMMIT"
              /\ \A k \in 1..NumParticipants : participants[k].state = "COMMITTED"

C4_Witness ==
    /\ Returned /\ NumParticipants >= 2 /\ AllWillVoteYes
    /\ ret = "COMMIT"
    /\ \A k \in 1..NumParticipants : participants[k].log = <<"VOTE YES", "COMMIT">>

\* C5. A second invocation of run_2pc on a Coordinator whose first run has
\* completed is rejected with an error and changes neither the coordinator's
\* decision and log nor any participant.
C5_SecondRunRejected ==
    [][(RunStart /\ runs >= 1) =>
          (ret' = Error /\ UNCHANGED <<participants, decision, log>>)]_vars

\* C6. commit() on a participant that is not READY, and abort() on a
\* participant that is INIT or COMMITTED, is rejected with an error and leaves
\* the participant's state and log unchanged.
C6_ContractCheck ==
    [][\A k \in 1..NumParticipants :
          (\/ CallCommit(k) /\ participants[k].state # "READY"
           \/ CallAbort(k) /\ participants[k].state \in {"INIT", "COMMITTED"}) =>
              (ret' = Error /\ participants'[k] = participants[k])]_vars

\* C7. Participant log completeness: when the first run_2pc on participants with
\* empty logs has returned, every participant's log is exactly its vote entry
\* followed by the phase-2 entry that matches the decision, NO voters included.
C7_ParticipantLog ==
    Returned =>
        \A k \in 1..NumParticipants :
            participants[k].log =
                << IF participants[k].will_vote_yes THEN "VOTE YES" ELSE "VOTE NO",
                   IF decision = "COMMIT" THEN "COMMIT" ELSE "ABORT" >>

C7_Witness ==
    /\ Returned
    /\ \E k \in 1..NumParticipants : participants[k].log = <<"VOTE NO", "ABORT">>
    /\ \E k \in 1..NumParticipants : participants[k].log = <<"VOTE YES", "ABORT">>

\* The lines a coordinator log must hold after one run, written out.
ExpectedVoteLines ==
    [k \in 1..NumParticipants |->
        participants[k].name \o " -> " \o
            (IF participants[k].will_vote_yes THEN "YES" ELSE "NO")]

ExpectedOutcomeLines ==
    [k \in 1..NumParticipants |->
        participants[k].name \o " -> " \o participants[k].state]

\* C8. Coordinator log completeness: when the first run_2pc over n participants
\* has returned, the coordinator's log has 2n+3 entries: the phase-1 marker, one
\* vote line per participant in list order, the decision marker, the phase-2
\* marker naming the same decision, one outcome line per participant in list
\* order naming its final state.
C8_CoordinatorLog ==
    Returned =>
        /\ Len(log) = 2 * NumParticipants + 3
        /\ log = <<"PHASE 1: PREPARE">> \o ExpectedVoteLines
                 \o <<"DECISION: " \o decision, "PHASE 2: " \o decision>>
                 \o ExpectedOutcomeLines

C8_Witness ==
    /\ Returned /\ NumParticipants = 3 /\ Len(log) = 9
    /\ log[4] = "C -> NO"
    /\ log[5] = "DECISION: ABORT"
    /\ log[7] = "A -> ABORTED"

\* C9. Empty participant list: when the first run_2pc of a Coordinator with no
\* participants has returned, it returned COMMIT, decision is COMMIT, and the
\* coordinator's log is the phase-1 marker, the decision marker and the phase-2
\* marker.
C9_EmptyList ==
    (Returned /\ NumParticipants = 0) =>
        /\ ret = "COMMIT"
        /\ decision = "COMMIT"
        /\ participants = <<>>
        /\ log = <<"PHASE 1: PREPARE", "DECISION: COMMIT", "PHASE 2: COMMIT">>

C9_Witness == Returned /\ NumParticipants = 0 /\ Len(log) = 3

\* The state changes a participant may make within one transaction.
Monotonic(a, b) ==
    \/ a = b
    \/ <<a, b>> \in {<<"INIT", "READY">>, <<"INIT", "ABORTED">>,
                     <<"READY", "COMMITTED">>, <<"READY", "ABORTED">>}

\* C10. Monotonic transitions: every step of the first run_2pc on participants
\* that started in INIT changes a participant's state only from INIT to READY,
\* INIT to ABORTED, READY to COMMITTED or READY to ABORTED.
C10_MonotonicTransitions ==
    [][(runs' = 1 /\ calls' = 0) =>
          \A k \in 1..NumParticipants :
              Monotonic(participants[k].state, participants'[k].state)]_vars

\* C11. Atomicity at every step: in no state of the first run_2pc is one
\* participant COMMITTED while another participant is ABORTED.
C11_Atomicity ==
    FirstRun =>
        ~ \E a, b \in 1..NumParticipants :
              /\ participants[a].state = "COMMITTED"
              /\ participants[b].state = "ABORTED"

VoteEntries == {"VOTE YES", "VOTE NO"}

Phase2Entries == {"COMMIT", "ABORT"}

\* C12. No early exit, strict phase order: in the first run_2pc, while phase 1
\* runs the decision is unset and no participant has received a phase-2 call;
\* once phase 2 has begun every participant has received prepare(), also those
\* listed after a NO voter; a participant that has received commit() or abort()
\* implies that all have voted and the decision is set.
C12_PhaseOrder ==
    FirstRun =>
        /\ pc = "phase1" =>
              /\ decision = None
              /\ \A k \in 1..NumParticipants :
                    Len(participants[k].log) = IF k < i THEN 1 ELSE 0
        /\ pc # "phase1" =>
              \A k \in 1..NumParticipants :
                  /\ Len(participants[k].log) >= 1
                  /\ participants[k].log[1] \in VoteEntries
        /\ \A k \in 1..NumParticipants :
              Len(participants[k].log) >= 2 =>
                  /\ decision \in Decision
                  /\ participants[k].log[2] \in Phase2Entries
                  /\ \A j \in 1..NumParticipants :
                        Len(participants[j].log) >= 1

\* Phase 2 is about to start although the first participant voted NO: the two
\* after it were still asked.
C12_Witness ==
    /\ FirstRun /\ pc = "phase2" /\ i = 1 /\ NumParticipants = 3
    /\ participants[1].log = <<"VOTE NO">>
    /\ participants[2].log = <<"VOTE YES">>
    /\ participants[3].log = <<"VOTE NO">>

\* How many entries of log l are in S.
Count(l, S) == Cardinality({j \in 1..Len(l) : l[j] \in S})

\* Every participant has logged one prepare() and one phase-2 call.
ExactlyOnce ==
    \A k \in 1..NumParticipants :
        /\ Count(participants[k].log, VoteEntries) = 1
        /\ Count(participants[k].log, Phase2Entries) = 1

\* C13. Termination: the first run_2pc, once entered, returns, and when it has
\* returned every participant has received exactly one prepare() call and
\* exactly one phase-2 call (commit() or abort(), not both).
C13_Termination == (FirstRun /\ pc = "phase1") ~> (Returned /\ ExactlyOnce)

C13_Witness ==
    /\ Returned /\ NumParticipants = 3 /\ ExactlyOnce
    /\ \E k \in 1..NumParticipants : participants[k].log[2] = "COMMIT"

\* C14. Phase-2 calls respect the participant preconditions: in the first
\* run_2pc over distinctly named participants that started in INIT, the
\* participant phase 2 is about to call is READY when the call is commit(), and
\* READY or ABORTED when the call is abort().
C14_Phase2Preconditions ==
    (FirstRun /\ DistinctNames /\ pc = "phase2" /\ i <= NumParticipants) =>
        /\ decision = "COMMIT" => participants[i].state = "READY"
        /\ decision = "ABORT" => participants[i].state \in {"READY", "ABORTED"}
        /\ decision \in Decision

\* abort() is about to be called on a participant that aborted itself by
\* voting NO, after it has been called on a READY one.
C14_Witness ==
    /\ FirstRun /\ DistinctNames /\ pc = "phase2" /\ i = 2 /\ NumParticipants >= 2
    /\ decision = "ABORT"
    /\ participants[1].log = <<"VOTE YES", "ABORT">>
    /\ participants[2].state = "ABORTED"

\* C15. Decision lifecycle: in every state of a run, Coordinator.decision is None
\* until the last prepare() has returned; it is assigned only by the decision
\* step that follows the last prepare(), keeps that value through phase 2, and
\* is the value run_2pc returns.
C15_DecisionLifecycle ==
    [][/\ pc' = "phase1" => decision' = None
       /\ decision' # decision =>
             (pc = "phase1" /\ i > NumParticipants /\ pc' = "phase2")
       /\ pc' = "phase2" => decision' \in Decision
       /\ (pc = "phase2" /\ pc' = "idle") => ret' = decision]_vars

\* C16. The decision counts the vote of every element of the list, also when
\* names repeat: when the first run_2pc has returned, a participant whose
\* prepare() voted NO means that the decision is ABORT and that this participant
\* is ABORTED.
C16_EveryVoteCounts ==
    Returned =>
        \A k \in 1..NumParticipants :
            ~VotedYes(k) =>
                /\ decision = "ABORT"
                /\ ret = "ABORT"
                /\ participants[k].state = "ABORTED"

\* The permutations of 1..n.
Perms(n) == {f \in [1..n -> 1..n] : \A a, b \in 1..n : a # b => f[a] # f[b]}

\* The list the harness would construct with the participants in the order f.
Reordered(f) ==
    [k \in 1..NumParticipants |->
        Participant(participants[f[k]].name, participants[f[k]].will_vote_yes)]

Lines(l) == {l[j] : j \in 1..Len(l)}

\* C17. Order independence: when the first run_2pc over distinctly named
\* participants has returned, run_2pc over any permutation of the same
\* participants returns the same decision and leaves each participant in the
\* same final state, with the same log; the coordinator's log holds the same
\* lines, in the same order when the order of the list is the same.
C17_OrderIndependent ==
    (Returned /\ DistinctNames) =>
        \A f \in Perms(NumParticipants) :
            LET r == run_2pc(Reordered(f), <<>>)
            IN /\ r.decision = decision
               /\ \A k \in 1..NumParticipants :
                     r.participants[k] = participants[f[k]]
               /\ Len(r.log) = Len(log)
               /\ Lines(r.log) = Lines(log)
               /\ (\A k \in 1..NumParticipants : f[k] = k) => r.log = log

\* A run over three participants of which only the first voted NO: moving it
\* changes the order in which the votes arrive.
C17_Witness ==
    /\ Returned /\ DistinctNames /\ NumParticipants = 3
    /\ ~participants[1].will_vote_yes
    /\ participants[2].will_vote_yes /\ participants[3].will_vote_yes
    /\ \A k \in 1..3 : participants[k].state = "ABORTED"

\* C18. Frame: no step of run_2pc and no prepare(), commit() or abort() changes
\* the coordinator's participant list (its length and order) or any
\* participant's name or will_vote_yes.
C18_Frame ==
    [][/\ Len(participants') = Len(participants)
       /\ \A k \in 1..NumParticipants :
             /\ participants'[k].name = participants[k].name
             /\ participants'[k].will_vote_yes = participants[k].will_vote_yes]_vars

\* Two participants after a complete run and a direct call by the harness.
C18_Witness ==
    /\ pc = "idle" /\ runs >= 1 /\ calls >= 1 /\ NumParticipants = 2
    /\ \E k \in 1..NumParticipants : Len(participants[k].log) >= 3
    /\ \E k \in 1..NumParticipants : ~participants[k].will_vote_yes

\* Sequence a is a prefix of sequence b.
IsPrefix(a, b) == Len(a) <= Len(b) /\ SubSeq(b, 1, Len(a)) = a

\* C19. Logs are append-only: after every step of run_2pc (also of a repeated
\* run) and every direct prepare(), commit() or abort(), each participant log
\* and the coordinator log has its previous content as a prefix.
C19_AppendOnly ==
    [][/\ IsPrefix(log, log')
       /\ \A k \in 1..NumParticipants :
             IsPrefix(participants[k].log, participants'[k].log)]_vars

\* Two complete runs and one direct call have all appended to the logs.
C19_Witness ==
    /\ pc = "idle" /\ runs = 2 /\ calls = 1 /\ NumParticipants = 2
    /\ Len(log) = 2 * (2 * NumParticipants + 3)
    /\ \E k \in 1..NumParticipants : Len(participants[k].log) = 5

\* Number of coordinator log lines one run over the list appends.
RunLines == 2 * NumParticipants + 3

\* C20. Repeating a run does not change the outcome: when a second (or later)
\* run_2pc over the same distinctly named participants has returned, it returned
\* the decision the first run logged, every participant is in the state the
\* first run reported for it, and the coordinator log and each participant log
\* consist of one copy of the first run's entries per run.
C20_RepeatSameOutcome ==
    (pc = "idle" /\ calls = 0 /\ runs >= 2 /\ DistinctNames) =>
        /\ Len(log) = runs * RunLines
        /\ \A r \in 2..runs :
              SubSeq(log, (r - 1) * RunLines + 1, r * RunLines) = SubSeq(log, 1, RunLines)
        /\ ret = decision
        /\ log[NumParticipants + 2] = "DECISION: " \o decision
        /\ \A k \in 1..NumParticipants :
              /\ log[NumParticipants + 3 + k] =
                     participants[k].name \o " -> " \o participants[k].state
              /\ Len(participants[k].log) = 2 * runs
              /\ \A r \in 2..runs :
                    SubSeq(participants[k].log, 2 * r - 1, 2 * r) =
                        SubSeq(participants[k].log, 1, 2)

C20_Witness ==
    /\ pc = "idle" /\ calls = 0 /\ runs = 2 /\ DistinctNames /\ NumParticipants = 3
    /\ ret = "COMMIT"
    /\ \A k \in 1..3 :
          participants[k].log = <<"VOTE YES", "COMMIT", "VOTE YES", "COMMIT">>

====
